---- MODULE Spec2Model ----
(***************************************************************************)
(* Model of disable_varroa_tflm_cpp_from_log.py: a single-pass pipeline    *)
(* that extracts .cpp paths from a linker log, filters them, and renames   *)
(* the surviving files to <name>.cpp.disabled.                             *)
(*                                                                         *)
(* Strings and paths are sequences of one-character strings, so that the   *)
(* regular expression, the substring tests and pathlib's name/suffix       *)
(* arithmetic are computed character by character as Python computes them. *)
(***************************************************************************)
EXTENDS Integers, Sequences, FiniteSets, TLC

VARIABLES
    log,        \* the log file named on the command line: [kind, text]
    scope,      \* args.scope
    apply,      \* args.apply
    fs,         \* the file system: path -> [kind, content]
    fs0,        \* the file system when the process started (history)
    pc,         \* position of main: "start", "loop", "done"
    existing,   \* main's candidate list (result of unique_existing)
    idx,        \* position of the for loop in existing
    changed,    \* main's counter
    skipped,    \* main's counter
    errors,     \* main's counter
    ret,        \* <<>> while main has not returned, <<code>> once it has
    raised,     \* "none", or the exception that left main
    outcomes,   \* per processed candidate: which return of rename_file was taken
    printed,    \* tags of what went to standard output
    stderr,     \* tags of what went to standard error
    arg,        \* input of the function under test (unit specifications)
    res,        \* its result
    upc         \* "call" before the function under test ran, "done" after

vars == <<log, scope, apply, fs, fs0, pc, existing, idx, changed, skipped,
          errors, ret, raised, outcomes, printed, stderr, arg, res, upc>>

mainVars == <<log, scope, apply, fs, fs0, pc, existing, idx, changed, skipped,
              errors, ret, raised, outcomes, printed, stderr>>

unitVars == <<arg, res, upc>>

(***************************************************************************)
(* String literals of the program.                                         *)
(***************************************************************************)
VARROA_KEY ==
    <<"v", "a", "r", "o", "a", "_", "m", "i", "t", "e", "_", "d", "e", "t",
      "e", "c", "t", "i", "o", "n", "_", "i", "n", "f", "e", "r", "e", "n",
      "c", "i", "n", "g">>

MicroSuffix ==
    <<"/", "s", "r", "c", "/", "e", "d", "g", "e", "-", "i", "m", "p", "u",
      "l", "s", "e", "-", "s", "d", "k", "/", "t", "e", "n", "s", "o", "r",
      "f", "l", "o", "w", "/", "l", "i", "t", "e", "/", "m", "i", "c", "r",
      "o", "/">>

DotCpp == <<".", "c", "p", "p">>

DotDisabled == <<".", "d", "i", "s", "a", "b", "l", "e", "d">>

DotCppDisabled == DotCpp \o DotDisabled

ErrorWord == <<"E", "R", "R", "O", "R">>

MsgSkipDisabled ==
    <<"S", "K", "I", "P", " ", "a", "l", "r", "e", "a", "d", "y", " ", "d",
      "i", "s", "a", "b", "l", "e", "d", ":", " ">>

MsgSkipTarget ==
    <<"S", "K", "I", "P", " ", "t", "a", "r", "g", "e", "t", " ", "e", "x",
      "i", "s", "t", "s", ":", " ">>

MsgDryRun ==
    <<"D", "R", "Y", "-", "R", "U", "N", " ", "w", "o", "u", "l", "d", " ",
      "r", "e", "n", "a", "m", "e", ":", "\n", " ", " ">>

MsgArrowNl == <<"\n", " ", " ", "-", ">", " ">>

MsgRenamed == <<"R", "E", "N", "A", "M", "E", "D", ":", "\n", " ", " ">>

MsgError ==
    <<"E", "R", "R", "O", "R", " ", "r", "e", "n", "a", "m", "i", "n", "g",
      " ">>

MsgArrow == <<" ", "-", ">", " ">>

MsgColon == <<":", " ">>

\* str(e) of the OSError a failed rename raises (the paths follow it)
ErrnoText ==
    <<"[", "E", "r", "r", "n", "o", " ", "1", "3", "]", " ", "P", "e", "r",
      "m", "i", "s", "s", "i", "o", "n", " ", "d", "e", "n", "i", "e", "d">>

Upper ==
    <<"A", "B", "C", "D", "E", "F", "G", "H", "I", "J", "K", "L", "M", "N",
      "O", "P", "Q", "R", "S", "T", "U", "V", "W", "X", "Y", "Z">>

LowerAlpha ==
    <<"a", "b", "c", "d", "e", "f", "g", "h", "i", "j", "k", "l", "m", "n",
      "o", "p", "q", "r", "s", "t", "u", "v", "w", "x", "y", "z">>

(***************************************************************************)
(* Python string operations.                                               *)
(***************************************************************************)
\* s[i:i+len(t)] == t, with i counted from 1
IsPrefixAt(s, t, i) ==
    /\ i >= 1
    /\ i + Len(t) - 1 <= Len(s)
    /\ SubSeq(s, i, i + Len(t) - 1) = t

\* t in s
Contains(s, t) ==
    \/ t = <<>>
    \/ \E i \in 1..(Len(s) - Len(t) + 1) : s[i] = t[1] /\ IsPrefixAt(s, t, i)

\* s.endswith(t)
EndsWith(s, t) == Len(t) <= Len(s) /\ IsPrefixAt(s, t, Len(s) - Len(t) + 1)

\* s.lower()
LowerChar(c) ==
    IF \E k \in 1..Len(Upper) : Upper[k] = c
    THEN LowerAlpha[CHOOSE k \in 1..Len(Upper) : Upper[k] = c]
    ELSE c

Lower(s) == [k \in 1..Len(s) |-> LowerChar(s[k])]

\* s.rfind(c), counted from 1; 0 when c does not occur: the search runs
\* from the end of s, d characters back
RFind(s, c) ==
    LET n == Len(s)
        d == CHOOSE x \in 0..n :
                 /\ x = n \/ s[n - x] = c
                 /\ \A e \in 0..(x - 1) : s[n - e] # c
    IN  n - d

(***************************************************************************)
(* pathlib.PurePosixPath: parsing, str(), name, suffix, with_name.          *)
(***************************************************************************)
\* the elements of a finite set of numbers in increasing order
Sorted(S) ==
    [k \in 1..Cardinality(S) |->
        CHOOSE x \in S : Cardinality({y \in S : y < x}) = k - 1]

\* s.split("/"): the components of s between "/" separators, empty ones
\* included
SplitSlash(s) ==
    LET n    == Len(s)
        cuts == Sorted({0} \cup {i \in 1..n : s[i] = "/"})
        m    == Len(cuts)
    IN  [k \in 1..m |->
            SubSeq(s, cuts[k] + 1, (IF k < m THEN cuts[k + 1] ELSE n + 1) - 1)]

\* number of "/" that s starts with
RECURSIVE LeadingSlashes(_, _)
LeadingSlashes(s, i) ==
    IF i <= Len(s) /\ s[i] = "/" THEN 1 + LeadingSlashes(s, i + 1) ELSE 0

\* the parts pathlib keeps: neither empty nor "."
RECURSIVE KeptParts(_)
KeptParts(parts) ==
    IF parts = <<>> THEN <<>>
    ELSE IF Head(parts) = <<>> \/ Head(parts) = <<".">>
         THEN KeptParts(Tail(parts))
         ELSE <<Head(parts)>> \o KeptParts(Tail(parts))

RECURSIVE JoinSlash(_)
JoinSlash(parts) ==
    IF parts = <<>> THEN <<>>
    ELSE IF Len(parts) = 1 THEN Head(parts)
    ELSE Head(parts) \o <<"/">> \o JoinSlash(Tail(parts))

\* str(Path(s)): exactly two leading slashes are kept, any other number
\* of them is one root; empty and "." components are dropped
PathStr(s) ==
    LET n    == LeadingSlashes(s, 1)
        root == IF n = 2 THEN <<"/", "/">> ELSE IF n >= 1 THEN <<"/">> ELSE <<>>
        body == JoinSlash(KeptParts(SplitSlash(s)))
    IN  IF root = <<>> /\ body = <<>> THEN <<".">> ELSE root \o body

\* p.name of a path in str() form
PathName(p) ==
    LET i == RFind(p, "/")
    IN  IF p = <<".">> THEN <<>> ELSE SubSeq(p, i + 1, Len(p))

\* p.suffix: the last dot of the name, unless it is the first or the last
\* character of the name
PathSuffix(p) ==
    LET name == PathName(p)
        i    == RFind(name, ".")
    IN  IF 1 < i /\ i < Len(name) THEN SubSeq(name, i, Len(name)) ELSE <<>>

\* p.with_name(name) for a path that has a name
WithName(p, name) == SubSeq(p, 1, RFind(p, "/")) \o name

(***************************************************************************)
(* find_cpp_paths_in_log: re.findall(r"(/[^ \n\t:]+?\.cpp)", text)         *)
(***************************************************************************)
\* the character class [^ \n\t:]
InClass(c) == c \notin {" ", "\n", "\t", ":"}

\* the positions where a lazy scan can stop: the literal .cpp starts there,
\* or the character there is outside the class
Stops(s) ==
    {j \in 1..Len(s) :
        \/ s[j] \in {" ", "\n", "\t", ":"}
        \/ s[j] = "." /\ IsPrefixAt(s, DotCpp, j)}

\* The lazy quantifier: with the characters before k consumed, the literal
\* .cpp is tried at k, and only when it fails one more character of the class
\* is consumed. The scan therefore ends at the first stop from k on, and
\* succeeds only when .cpp starts there. The result is the index of the
\* match's last character, 0 when the attempt fails.
LazyEnd(s, stops, k) ==
    IF \A j \in stops : j < k THEN 0
    ELSE LET first == CHOOSE j \in stops :
                          j >= k /\ \A h \in stops : h < k \/ j <= h
         IN  IF InClass(s[first]) THEN first + Len(DotCpp) - 1 ELSE 0

\* a match attempt at position i: "/" , one character of the class, then
\* the lazy scan
MatchEnd(s, stops, i) ==
    IF s[i] = "/" /\ i + 1 <= Len(s) /\ InClass(s[i + 1])
    THEN LazyEnd(s, stops, i + 2)
    ELSE 0

\* findall: the leftmost match at or after i, then the scan resumes after it
RECURSIVE FindFrom(_, _, _, _)
FindFrom(s, stops, slashes, i) ==
    IF \A j \in slashes : j < i \/ MatchEnd(s, stops, j) = 0 THEN <<>>
    ELSE LET j == CHOOSE x \in slashes :
                      /\ x >= i
                      /\ MatchEnd(s, stops, x) # 0
                      /\ \A h \in slashes :
                             h < i \/ x <= h \/ MatchEnd(s, stops, h) = 0
             e == MatchEnd(s, stops, j)
         IN  <<SubSeq(s, j, e)>> \o FindFrom(s, stops, slashes, e + 1)

FindAll(s) == FindFrom(s, Stops(s), {j \in 1..Len(s) : s[j] = "/"}, 1)

find_cpp_paths_in_log(text) ==
    LET hits == FindAll(text)
    IN  [k \in 1..Len(hits) |-> PathStr(hits[k])]

(***************************************************************************)
(* The filters.                                                            *)
(***************************************************************************)
filter_varroa_paths(paths) ==
    LET keep(p) == Contains(p, VARROA_KEY)
    IN  SelectSeq(paths, keep)

\* str(p).replace("\\", "/")
norm(p) == [k \in 1..Len(p) |-> IF p[k] = "\\" THEN "/" ELSE p[k]]

MicroNeedle == VARROA_KEY \o MicroSuffix

TflmNeedle == VARROA_KEY \o MicroSuffix

Scopes == {"micro", "tflm", "any"}

\* filter_scope with the micro filter left out
filter_scope_unfiltered(paths, sc) ==
    IF sc \in Scopes THEN [exc |-> "none", val |-> paths]
    ELSE [exc |-> "ValueError", val |-> <<>>]

\* [exc, val]: exc is "none" when the function returns val
filter_scope(paths, sc) ==
    LET keepMicro(p) == Contains(norm(p), MicroNeedle)
        keepTflm(p)  == Contains(norm(p), TflmNeedle)
    IN  IF sc = "any" THEN [exc |-> "none", val |-> paths]
        ELSE IF sc = "micro"
             THEN [exc |-> "none", val |-> SelectSeq(paths, keepMicro)]
        ELSE IF sc = "tflm"
             THEN [exc |-> "none", val |-> SelectSeq(paths, keepTflm)]
        ELSE [exc |-> "ValueError", val |-> <<>>]

(***************************************************************************)
(* The file system.                                                        *)
(***************************************************************************)
Absent == [kind |-> "absent", content |-> 0]

Dir == [kind |-> "dir", content |-> 0]

File(c) == [kind |-> "file", content |-> c]

Lookup(F, p) == IF p \in DOMAIN F THEN F[p] ELSE Absent

\* Path.exists()
Exists(F, p) == Lookup(F, p).kind # "absent"

\* Path.is_file()
IsFile(F, p) == Lookup(F, p).kind = "file"

\* os.rename(src, dst): oserr is the operating system refusing the call
\* (permissions, read-only file system)
OsRename(F, src, dst, oserr) ==
    IF oserr \/ ~Exists(F, src) \/ Lookup(F, dst).kind = "dir"
    THEN [exc |-> "OSError", fs |-> F]
    ELSE [exc |-> "none",
          fs  |-> [q \in DOMAIN F \cup {src, dst} |->
                      IF q = dst THEN Lookup(F, src)
                      ELSE IF q = src THEN Absent
                      ELSE F[q]]]

(***************************************************************************)
(* unique_existing, compute_target, rename_file.                           *)
(***************************************************************************)
RECURSIVE UniqueLoop(_, _, _, _)
UniqueLoop(F, paths, seen, uniq) ==
    IF paths = <<>> THEN uniq
    ELSE LET p == Head(paths)
         IN  IF p \in seen THEN UniqueLoop(F, Tail(paths), seen, uniq)
             ELSE UniqueLoop(F, Tail(paths), seen \cup {p},
                             IF Exists(F, p) /\ IsFile(F, p)
                             THEN Append(uniq, p) ELSE uniq)

\* unique_existing without the seen set
unique_existing_keeps_repeats(F, paths) ==
    LET isFile(p) == Exists(F, p) /\ IsFile(F, p)
    IN  SelectSeq(paths, isFile)

unique_existing(F, paths) == UniqueLoop(F, paths, {}, <<>>)

compute_target(p) ==
    IF Lower(PathSuffix(p)) # DotCpp THEN [exc |-> "ValueError", val |-> <<>>]
    ELSE IF EndsWith(PathName(p), DotCppDisabled) THEN [exc |-> "none", val |-> p]
    ELSE [exc |-> "none", val |-> WithName(p, PathName(p) \o DotDisabled)]

\* rename_file without the dry-run return
rename_file_always_applies(F, src, dst, app, oserr) ==
    IF EndsWith(PathName(src), DotCppDisabled)
    THEN [changed |-> FALSE, msg |-> MsgSkipDisabled \o src,
          kind |-> "SkipDisabled", fs |-> F]
    ELSE IF Exists(F, dst)
    THEN [changed |-> FALSE, msg |-> MsgSkipTarget \o dst,
          kind |-> "SkipTarget", fs |-> F]
    ELSE LET r == OsRename(F, src, dst, oserr)
         IN  IF r.exc = "none"
             THEN [changed |-> TRUE,
                   msg |-> MsgRenamed \o src \o MsgArrowNl \o dst,
                   kind |-> "Renamed", fs |-> r.fs]
             ELSE [changed |-> FALSE,
                   msg |-> MsgError \o src \o MsgArrow \o dst \o MsgColon
                           \o ErrnoText,
                   kind |-> "Error", fs |-> r.fs]

\* rename_file without the test that the target exists
rename_file_overwrites(F, src, dst, app, oserr) ==
    IF EndsWith(PathName(src), DotCppDisabled)
    THEN [changed |-> FALSE, msg |-> MsgSkipDisabled \o src,
          kind |-> "SkipDisabled", fs |-> F]
    ELSE IF ~app
    THEN [changed |-> TRUE, msg |-> MsgDryRun \o src \o MsgArrowNl \o dst,
          kind |-> "DryRun", fs |-> F]
    ELSE LET r == OsRename(F, src, dst, oserr)
         IN  IF r.exc = "none"
             THEN [changed |-> TRUE,
                   msg |-> MsgRenamed \o src \o MsgArrowNl \o dst,
                   kind |-> "Renamed", fs |-> r.fs]
             ELSE [changed |-> FALSE,
                   msg |-> MsgError \o src \o MsgArrow \o dst \o MsgColon
                           \o ErrnoText,
                   kind |-> "Error", fs |-> r.fs]

\* [changed, msg, kind, fs]: kind names the return statement taken
rename_file(F, src, dst, app, oserr) ==
    IF EndsWith(PathName(src), DotCppDisabled)
    THEN [changed |-> FALSE, msg |-> MsgSkipDisabled \o src,
          kind |-> "SkipDisabled", fs |-> F]
    ELSE IF Exists(F, dst)
    THEN [changed |-> FALSE, msg |-> MsgSkipTarget \o dst,
          kind |-> "SkipTarget", fs |-> F]
    ELSE IF ~app
    THEN [changed |-> TRUE, msg |-> MsgDryRun \o src \o MsgArrowNl \o dst,
          kind |-> "DryRun", fs |-> F]
    ELSE LET r == OsRename(F, src, dst, oserr)
         IN  IF r.exc = "none"
             THEN [changed |-> TRUE,
                   msg |-> MsgRenamed \o src \o MsgArrowNl \o dst,
                   kind |-> "Renamed", fs |-> r.fs]
             ELSE [changed |-> FALSE,
                   msg |-> MsgError \o src \o MsgArrow \o dst \o MsgColon
                           \o ErrnoText,
                   kind |-> "Error", fs |-> r.fs]

(***************************************************************************)
(* Inputs of a run: the command line, the log file, the file system.       *)
(***************************************************************************)
MaxLines == 2

RootA == <<"/", "a", "/">>

FileMicroTime ==
    <<"m", "i", "c", "r", "o", "_", "t", "i", "m", "e", ".", "c", "p", "p">>

FileError == <<"E", "R", "R", "O", "R", ".", "c", "p", "p">>

FileModel == <<"/", "s", "r", "c", "/", "m", "o", "d", "e", "l", ".", "c", "p", "p">>

LineTail == <<":", "4", "3", ":", " ", "x", "\n">>

\* a unit of the micro directory, as in the linker's messages
PathMicroTime == RootA \o MicroNeedle \o FileMicroTime

\* a unit of the micro directory whose name holds the word ERROR
PathError == RootA \o MicroNeedle \o FileError

\* a unit of the micro directory named .cpp
PathDotfile == RootA \o MicroNeedle \o DotCpp

\* a unit of the library outside the micro directory
PathModel == RootA \o VARROA_KEY \o FileModel

\* a unit outside the library
PathOther == <<"/", "a", "/", "o", "t", "h", "e", "r", "/", "x", ".", "c", "p", "p">>

LogPaths == <<PathMicroTime, PathError, PathDotfile, PathModel, PathOther>>

\* the lines of a log, each naming one of LogPaths: all sequences of at
\* most MaxLines of them
LineSeqs == UNION {[1..n -> 1..Len(LogPaths)] : n \in 0..MaxLines}

RECURSIVE TextOf(_)
TextOf(ls) ==
    IF ls = <<>> THEN <<>>
    ELSE LogPaths[Head(ls)] \o LineTail \o TextOf(Tail(ls))

\* the directory entry a rename of p would create
DisabledName(p) == p \o DotDisabled

FsPaths ==
    {LogPaths[k] : k \in 1..Len(LogPaths)}
    \cup {DisabledName(LogPaths[k]) : k \in 1..Len(LogPaths)}

\* the kinds <<unit, unit.disabled>> a path starts with
PairKinds(p) ==
    IF p = PathMicroTime
    THEN {<<"file", "absent">>, <<"file", "file">>, <<"file", "dir">>,
          <<"absent", "absent">>, <<"absent", "file">>, <<"dir", "absent">>}
    ELSE IF p = PathOther \/ p = PathModel
    THEN {<<"file", "absent">>, <<"absent", "absent">>}
    ELSE {<<"file", "absent">>, <<"file", "file">>, <<"absent", "absent">>}

\* every file starts with a content of its own
ContentOf(q) ==
    IF \E k \in 1..Len(LogPaths) : LogPaths[k] = q
    THEN CHOOSE k \in 1..Len(LogPaths) : LogPaths[k] = q
    ELSE Len(LogPaths)
         + (CHOOSE k \in 1..Len(LogPaths) : DisabledName(LogPaths[k]) = q)

Entry(kind, q) ==
    IF kind = "file" THEN File(ContentOf(q))
    ELSE IF kind = "dir" THEN Dir ELSE Absent

\* The file systems a run may start in, given the paths its log names: a
\* named path starts in any of its PairKinds, every other path is a file
\* with no .disabled entry beside it.
FileSystems(named) ==
    LET K(k)    == IF k \in named THEN PairKinds(LogPaths[k])
                   ELSE {<<"file", "absent">>}
        Choices == {<<c1, c2, c3, c4, c5>> :
                       c1 \in K(1), c2 \in K(2), c3 \in K(3), c4 \in K(4),
                       c5 \in K(5)}
        Build(c) ==
            [q \in FsPaths |->
                LET k == CHOOSE j \in 1..Len(LogPaths) :
                             q \in {LogPaths[j], DisabledName(LogPaths[j])}
                IN  Entry(IF q = LogPaths[k] THEN c[k][1] ELSE c[k][2], q)]
    IN  {Build(c) : c \in Choices}

(***************************************************************************)
(* main.                                                                   *)
(***************************************************************************)
UnitIdle == arg = <<>> /\ res = <<>> /\ upc = "idle"

Init ==
    /\ \/ /\ log \in {[kind |-> k, text |-> <<>>] :
                         k \in {"missing", "dir", "unreadable"}}
          /\ fs \in FileSystems({})
       \/ \E ls \in LineSeqs :
             /\ log = [kind |-> "file", text |-> TextOf(ls)]
             /\ fs \in FileSystems({ls[k] : k \in DOMAIN ls})
    /\ scope \in Scopes
    /\ apply \in BOOLEAN
    /\ fs0 = fs
    /\ pc = "start"
    /\ existing = <<>>
    /\ idx = 1
    /\ changed = 0
    /\ skipped = 0
    /\ errors = 0
    /\ ret = <<>>
    /\ raised = "none"
    /\ outcomes = <<>>
    /\ printed = <<>>
    /\ stderr = <<>>
    /\ UnitIdle

\* what main computes between reading the log and the emptiness test
Candidates(text, sc, F) ==
    LET all_cpp   == find_cpp_paths_in_log(text)
        varoa_cpp == filter_varroa_paths(all_cpp)
        scoped    == filter_scope(varoa_cpp, sc)
    IN  IF scoped.exc # "none" THEN scoped
        ELSE [exc |-> "none", val |-> unique_existing(F, scoped.val)]

\* if not log_path.exists(): return 2
StartLogMissing ==
    /\ pc = "start"
    /\ log.kind = "missing"
    /\ stderr' = Append(stderr, "logfile does not exist")
    /\ ret' = <<2>>
    /\ pc' = "done"
    /\ UNCHANGED <<log, scope, apply, fs, fs0, existing, idx, changed, skipped,
                   errors, raised, outcomes, printed, arg, res, upc>>

\* log_path.read_text() of a directory or of a file without read permission
StartLogUnreadable ==
    /\ pc = "start"
    /\ log.kind \in {"dir", "unreadable"}
    /\ raised' = "OSError"
    /\ pc' = "done"
    /\ UNCHANGED <<log, scope, apply, fs, fs0, existing, idx, changed, skipped,
                   errors, ret, outcomes, printed, stderr, arg, res, upc>>

\* the log is read and filtered: return 1 when nothing is left, else the
\* plan header is printed and the loop is entered
StartScan ==
    /\ pc = "start"
    /\ log.kind = "file"
    /\ LET c == Candidates(log.text, scope, fs)
       IN  IF c.exc # "none"
           THEN /\ raised' = c.exc
                /\ pc' = "done"
                /\ UNCHANGED <<existing, printed, ret>>
           ELSE /\ existing' = c.val
                /\ raised' = raised
                /\ IF c.val = <<>>
                   THEN /\ printed' = Append(printed, "No matching")
                        /\ ret' = <<1>>
                        /\ pc' = "done"
                   ELSE /\ printed' = Append(printed, "PLAN")
                        /\ ret' = ret
                        /\ pc' = "loop"
    /\ UNCHANGED <<log, scope, apply, fs, fs0, idx, changed, skipped, errors,
                   outcomes, stderr, arg, res, upc>>

\* one iteration of "for src in existing"
Process ==
    /\ pc = "loop"
    /\ idx <= Len(existing)
    /\ LET src == existing[idx]
           dst == compute_target(src)
       IN  IF dst.exc # "none"
           THEN /\ raised' = dst.exc
                /\ pc' = "done"
                /\ UNCHANGED <<fs, idx, changed, skipped, errors, outcomes, printed>>
           ELSE \E oserr \in BOOLEAN :
                  LET r == rename_file(fs, src, dst.val, apply, oserr)
                      isErr == Contains(r.msg, ErrorWord)
                  IN  /\ fs' = r.fs
                      /\ printed' = Append(printed, "msg")
                      /\ errors' = IF isErr THEN errors + 1 ELSE errors
                      /\ changed' = IF ~isErr /\ r.changed THEN changed + 1 ELSE changed
                      /\ skipped' = IF ~isErr /\ ~r.changed THEN skipped + 1 ELSE skipped
                      /\ outcomes' = Append(outcomes, [cand |-> idx, kind |-> r.kind])
                      /\ idx' = idx + 1
                      /\ UNCHANGED <<raised, pc>>
    /\ UNCHANGED <<log, scope, apply, fs0, existing, ret, stderr, arg, res, upc>>

\* the summary and the exit code
Finish ==
    /\ pc = "loop"
    /\ idx > Len(existing)
    /\ printed' = Append(printed, "SUMMARY")
    /\ ret' = IF errors # 0 THEN <<3>> ELSE <<0>>
    /\ pc' = "done"
    /\ UNCHANGED <<log, scope, apply, fs, fs0, existing, idx, changed, skipped,
                   errors, raised, outcomes, stderr, arg, res, upc>>

Next ==
    \/ StartLogMissing
    \/ StartLogUnreadable
    \/ StartScan
    \/ Process
    \/ Finish

Spec == Init /\ [][Next]_vars

(***************************************************************************)
(* Specifications that call one function on its own.                       *)
(***************************************************************************)
MainIdle ==
    /\ log = [kind |-> "missing", text |-> <<>>]
    /\ scope = "micro"
    /\ apply = FALSE
    /\ fs0 = fs
    /\ pc = "idle"
    /\ existing = <<>>
    /\ idx = 1
    /\ changed = 0
    /\ skipped = 0
    /\ errors = 0
    /\ ret = <<>>
    /\ raised = "none"
    /\ outcomes = <<>>
    /\ printed = <<>>
    /\ stderr = <<>>

\* all concatenations of at most n sequences of frags
RECURSIVE Concats(_, _)
Concats(frags, n) ==
    IF n = 0 THEN {<<>>}
    ELSE Concats(frags, n - 1)
         \cup {t \o f : t \in Concats(frags, n - 1), f \in frags}

\* ---- find_cpp_paths_in_log on short texts ----
MaxFrags == 4

TextFrags ==
    {<<"/">>, <<"/", "a">>, DotCpp, <<".">>, <<" ">>, <<":">>, <<"\n">>,
     <<"\t">>, <<"\r">>}

InitFind ==
    /\ arg \in Concats(TextFrags, MaxFrags)
    /\ res = <<>>
    /\ upc = "call"
    /\ fs = <<>>
    /\ MainIdle

CallFind ==
    /\ upc = "call"
    /\ res' = find_cpp_paths_in_log(arg)
    /\ upc' = "done"
    /\ UNCHANGED <<arg, log, scope, apply, fs, fs0, pc, existing, idx, changed,
                   skipped, errors, ret, raised, outcomes, printed, stderr>>

SpecFind == InitFind /\ [][CallFind]_vars

\* ---- compute_target on short paths ----
MaxNameFrags == 3

NameFrags ==
    {<<"a">>, <<".">>, DotCpp, <<".", "C", "P", "P">>, DotDisabled,
     <<".", "t", "x", "t">>}

InitTarget ==
    /\ arg \in {<<"/", "x", "/">> \o nm :
                   nm \in Concats(NameFrags, MaxNameFrags) \ {<<>>}}
    /\ res = <<>>
    /\ upc = "call"
    /\ fs = <<>>
    /\ MainIdle

CallTarget ==
    /\ upc = "call"
    /\ res' = compute_target(arg)
    /\ upc' = "done"
    /\ UNCHANGED <<arg, log, scope, apply, fs, fs0, pc, existing, idx, changed,
                   skipped, errors, ret, raised, outcomes, printed, stderr>>

SpecTarget == InitTarget /\ [][CallTarget]_vars

\* ---- unique_existing on short lists ----
MaxPaths == 3

ListPaths ==
    {<<"/", "a", ".", "c", "p", "p">>, <<"/", "b", ".", "c", "p", "p">>,
     <<"/", "c", ".", "c", "p", "p">>}

InitUnique ==
    /\ arg \in UNION {[1..n -> ListPaths] : n \in 0..MaxPaths}
    /\ fs \in [ListPaths -> {Absent, Dir, File(1)}]
    /\ res = <<>>
    /\ upc = "call"
    /\ MainIdle

CallUnique ==
    /\ upc = "call"
    /\ res' = unique_existing(fs, arg)
    /\ upc' = "done"
    /\ UNCHANGED <<arg, log, scope, apply, fs, fs0, pc, existing, idx, changed,
                   skipped, errors, ret, raised, outcomes, printed, stderr>>

SpecUnique == InitUnique /\ [][CallUnique]_vars

(***************************************************************************)
(* Properties of a run of main.                                            *)
(***************************************************************************)
Kinds(k) == {j \in DOMAIN outcomes : outcomes[j].kind = k}

\* the sources of the renames a run has carried out
RenamedSources == {existing[outcomes[j].cand] : j \in Kinds("Renamed")}

\* the log names path p, followed by the line number as the linker prints it
Mentions(text, p) == Contains(text, p \o <<":">>)

PathSet == {LogPaths[k] : k \in 1..Len(LogPaths)}

\* what section 2 of the specification calls the candidate set is empty or
\* not, said from the inputs alone: a path named by the log, inside the
\* library, inside the scope, a regular file when the run started
Eligible(p, sc, F) ==
    /\ Contains(p, VARROA_KEY)
    /\ \/ sc = "any"
       \/ sc = "micro" /\ Contains(p, MicroNeedle)
       \/ sc = "tflm" /\ Contains(p, TflmNeedle)
    /\ IsFile(F, p)

SomeCandidate ==
    \E p \in PathSet : Mentions(log.text, p) /\ Eligible(p, scope, fs0)

\* C1: main returns 3 exactly when at least one rename attempt failed with a
\* file system error in apply mode; every other run that processed a
\* non-empty candidate set returns 0, a dry run included, whatever the
\* candidates are named.
C1_ExitThreeIffRenameFailed ==
    (pc = "done" /\ existing # <<>> /\ ret # <<>>) =>
        /\ ret = <<3>> <=> (apply /\ Kinds("Error") # {})
        /\ ret # <<3>> => ret = <<0>>

\* C2: without --apply no file or directory is renamed, created, deleted or
\* modified: the file system is at every moment the one the run started in.
C2_DryRunLeavesFileSystem == ~apply => fs = fs0

C2_Witness ==
    /\ ~apply
    /\ pc = "done"
    /\ ret = <<0>>
    /\ Cardinality(Kinds("DryRun")) = 2
    /\ changed = 2

\* C3: a candidate whose target path exists when it is processed gets the
\* outcome Skipped-Target-Exists, and processing it changes nothing in the
\* file system, in both modes.
C3_ExistingTargetIsSkipped ==
    [][(/\ pc = "loop"
        /\ idx <= Len(existing)
        /\ Exists(fs, DisabledName(existing[idx])))
       => /\ outcomes' = Append(outcomes, [cand |-> idx, kind |-> "SkipTarget"])
          /\ fs' = fs]_vars

\* C4: a file system error on the rename of one candidate in apply mode gives
\* that candidate the outcome Error and does not abort the batch: every
\* candidate is processed exactly once, in candidate-set order.
C4_ErrorDoesNotAbortBatch ==
    (pc = "done" /\ apply /\ Kinds("Error") # {}) =>
        /\ Len(outcomes) = Len(existing)
        /\ \A j \in DOMAIN outcomes : outcomes[j].cand = j
        /\ ret = <<3>>

\* C5: a log path that does not exist or cannot be read makes main return 2
\* with no candidate set built, no outcome reported, nothing renamed.
C5_UnreadableLogExitsTwo ==
    (pc = "done" /\ log.kind # "file") =>
        /\ ret = <<2>>
        /\ existing = <<>>
        /\ outcomes = <<>>
        /\ printed = <<>>
        /\ fs = fs0

\* C6: for a readable log main returns 1 exactly when the candidate set is
\* empty, and then nothing was renamed and no outcome was reported; so a run
\* with scope micro over a log whose library paths all lie outside the micro
\* directory returns 1 even though those paths are existing regular files.
C6_ExitOneIffNoCandidate ==
    (pc = "done" /\ log.kind = "file") =>
        /\ ret = <<1>> <=> ~SomeCandidate
        /\ ret = <<1>> => outcomes = <<>> /\ fs = fs0 /\ existing = <<>>

C6_Witness ==
    /\ pc = "done"
    /\ log.kind = "file"
    /\ scope = "micro"
    /\ Mentions(log.text, PathModel)
    /\ IsFile(fs0, PathModel)
    /\ \A p \in PathSet : Mentions(log.text, p) => p = PathModel
    /\ ret = <<1>>

\* C7: in apply mode, for every candidate with the outcome Renamed the source
\* path no longer exists and its target exists in the same directory with the
\* entry the source had, the target did not exist before, and every other
\* path of the file system is as it was when the run started.
C7_ApplyRenamesOnlyCandidates ==
    apply =>
        /\ DOMAIN fs = DOMAIN fs0
        /\ \A p \in RenamedSources :
              /\ ~Exists(fs, p)
              /\ IsFile(fs0, p)
              /\ Lookup(fs, DisabledName(p)) = fs0[p]
              /\ ~Exists(fs0, DisabledName(p))
        /\ \A q \in DOMAIN fs0 :
              (/\ q \notin RenamedSources
               /\ \A p \in RenamedSources : q # DisabledName(p))
              => fs[q] = fs0[q]

C7_Witness ==
    /\ apply
    /\ pc = "done"
    /\ Cardinality(Kinds("Renamed")) = 1
    /\ Cardinality(Kinds("SkipTarget")) = 1
    /\ ret = <<0>>

(***************************************************************************)
(* Properties of the functions on their own.                               *)
(***************************************************************************)
Forbidden == {" ", "\t", "\n", "\r", ":"}

\* the raw matches lie in the text one after the other, without overlap
InTextOrder(text, hits) ==
    \E f \in [DOMAIN hits -> 1..Len(text)] :
        /\ \A k \in DOMAIN hits : IsPrefixAt(text, hits[k], f[k])
        /\ \A k \in DOMAIN hits :
              k + 1 \in DOMAIN hits => f[k] + Len(hits[k]) <= f[k + 1]

\* C9: every path find_cpp_paths_in_log returns ends with ".cpp" and holds no
\* space, tab, newline, carriage return or colon; the paths come in the
\* order in which they occur in the text, a path that occurs twice twice.
C9_FoundPathsAreClean ==
    upc = "done" =>
        /\ \A k \in DOMAIN res :
              /\ EndsWith(res[k], DotCpp)
              /\ \A j \in DOMAIN res[k] : res[k][j] \notin Forbidden
        /\ InTextOrder(arg, FindAll(arg))
        /\ Len(res) = Len(FindAll(arg))

\* C8: compute_target returns the path itself when its name ends with
\* ".cpp.disabled", and otherwise the path in the same directory whose name
\* is the input's name followed by ".disabled"; it raises nothing.
C8_TargetAppendsDisabled ==
    (upc = "done" /\ (EndsWith(Lower(arg), DotCpp) \/ EndsWith(arg, DotCppDisabled)))
    => res = [exc |-> "none",
              val |-> IF EndsWith(arg, DotCppDisabled) THEN arg
                      ELSE arg \o DotDisabled]

FirstIndex(s, x) == CHOOSE j \in DOMAIN s : s[j] = x /\ \A i \in 1..(j - 1) : s[i] # x

\* C10: the result of unique_existing holds no path twice, holds only paths
\* of the input that are regular files, holds every such path exactly once,
\* and keeps the order of first occurrence in the input.
C10_UniqueExistingIsDedupedFiles ==
    upc = "done" =>
        /\ \A k \in DOMAIN res :
              /\ IsFile(fs, res[k])
              /\ \E j \in DOMAIN arg : arg[j] = res[k]
        /\ \A j \in DOMAIN arg :
              IsFile(fs, arg[j])
              => Cardinality({k \in DOMAIN res : res[k] = arg[j]}) = 1
        /\ \A a, b \in DOMAIN res :
              a < b => FirstIndex(arg, res[a]) < FirstIndex(arg, res[b])

C10_Witness ==
    /\ upc = "done"
    /\ Len(arg) = 3
    /\ arg[1] = arg[3]
    /\ IsFile(fs, arg[1])
    /\ arg[2] # arg[1]
    /\ Lookup(fs, arg[2]).kind = "dir"
    /\ res = <<arg[1]>>

====
